---- MODULE Spec2Model ----
(***************************************************************************)
(* Supervisor/worker orchestration graph of the multi-agent data-analysis  *)
(* system: process_query (main.py) builds the initial AgentState and runs   *)
(* the compiled graph (graph.py) whose nodes are supervisor_node,           *)
(* csv_worker_node, sql_worker_node, db_chart_worker_node (nodes.py) and    *)
(* the three tool-execution nodes (graph.py, tools.py).                     *)
(*                                                                         *)
(* The language model and the outcome of running submitted code / SQL are  *)
(* the environment: every response the code can receive is a               *)
(* nondeterministic choice.  Two things are held fixed inside one run:      *)
(* the arguments a worker's tool call carries (llm_args) and the effect of  *)
(* a tool on the run's files (tool_env); both are chosen the first time     *)
(* they are needed.  Text is modelled by strings, searched and lower-cased  *)
(* character by character.                                                  *)
(***************************************************************************)
EXTENDS Integers, Sequences, FiniteSets, TLC

VARIABLES
    upload_dir,            \* names in settings.UPLOAD_DIR (os.listdir)
    present,               \* do the listed files exist under ./uploads ?
    prompt,                \* request.prompt
    caller,                \* "process_query" | "direct" | "" before the run
    messages,              \* AgentState.messages
    file_paths,            \* AgentState.file_paths
    active_worker,         \* AgentState.active_worker
    last_sql_query,        \* AgentState.last_sql_query   (<<>> is None)
    chart_code_generated,  \* AgentState.chart_code_generated (<<>> is None)
    node,                  \* the node the graph runs next
    steps,                 \* node visits so far in this run
    visited,               \* the nodes visited, in order
    status,                \* "idle" | "running" | "ok" | "rejected" | "failed"
    answer,                \* the "answer" field returned to the caller
    fatal,                 \* the exception that ended the run, "" if none
    llm_calls,             \* number of llm.invoke / agent.invoke calls
    last_llm,              \* the latest language-model call and its response
    llm_args,              \* per worker: the arguments of its tool call
    tool_env,              \* per tool node: the effect of executing the tool
    llm_log,               \* the responses of this run's model calls, in order
    generated_under,       \* sql_worker_node: limit_instruction of the generation prompt (<<>> before)
    earlier,               \* what the request served before this one did (<<>> if none)
    ui_text,               \* app_ui: the text handed to extract_chart_path
    ui_chart_path,         \* app_ui: chart_path, the value it returned (<<>> is None)
    ui_pass,               \* app_ui: how many times it was applied
    python_repl_globals,   \* tools.py: python_repl.globals["df"] (<<>> before any call)
    invocations,           \* tools.py: per thread, the tool invocation it executes
    figures,               \* matplotlib.pyplot: the open figures, in order of creation
    charts,                \* the files under charts/: path -> the figure saved there
    now                    \* datetime.now(), in seconds

vars == <<upload_dir, present, prompt, caller, messages, file_paths,
          active_worker, last_sql_query, chart_code_generated, node, steps,
          visited, status, answer, fatal, llm_calls, last_llm, llm_args,
          tool_env, llm_log, generated_under, earlier, ui_text, ui_chart_path,
          ui_pass, python_repl_globals, invocations, figures, charts, now>>

\* the front end's variables and the record of the earlier request: no step
\* of a run writes them
outside == <<earlier, ui_text, ui_chart_path, ui_pass,
             python_repl_globals, invocations, figures, charts, now>>

\* what the tools share inside one server process, and the chart files
tools_py == <<python_repl_globals, invocations, figures, charts, now>>

-----------------------------------------------------------------------------
(* Python string and list primitives used by the code *)

UpperCase == "ABCDEFGHIJKLMNOPQRSTUVWXYZ"
LowerCase == "abcdefghijklmnopqrstuvwxyz"

LowerChar(c) ==
    IF \E i \in 1..Len(UpperCase) : SubSeq(UpperCase, i, i) = c
    THEN LET i == CHOOSE j \in 1..Len(UpperCase) : SubSeq(UpperCase, j, j) = c
         IN  SubSeq(LowerCase, i, i)
    ELSE c

RECURSIVE Lower(_)
Lower(s) ==
    IF Len(s) = 0 THEN ""
    ELSE LowerChar(SubSeq(s, 1, 1)) \o Lower(SubSeq(s, 2, Len(s)))

\* Python: w in s
Contains(s, w) ==
    \E i \in 1..(Len(s) - Len(w) + 1) : SubSeq(s, i, i + Len(w) - 1) = w

\* Python: s.endswith(suffix)
EndsWith(s, suffix) ==
    /\ Len(s) >= Len(suffix)
    /\ SubSeq(s, Len(s) - Len(suffix) + 1, Len(s)) = suffix

Range(seq) == {seq[i] : i \in 1..Len(seq)}

Last(seq) == seq[Len(seq)]

\* Optional[...] values: <<>> is None, <<v>> is v
None == <<>>
Some(v) == <<v>>
TruthyStr(o) == o # None /\ o[1] # ""
TruthyBool(o) == o # None /\ o[1] = TRUE

-----------------------------------------------------------------------------
(* Messages and the add_messages reducer *)

HumanMessage(c) == [type |-> "human", content |-> c, tool_calls |-> <<>>, id |-> 0]
AIMessage(c, tcs) == [type |-> "ai", content |-> c, tool_calls |-> tcs, id |-> 0]
ToolMessage(c) == [type |-> "tool", content |-> c, tool_calls |-> <<>>, id |-> 0]

\* the largest id in use, 0 if there is none
MaxId(msgs) ==
    LET ids == {msgs[i].id : i \in 1..Len(msgs)}
    IN  IF ids = {} THEN 0 ELSE CHOOSE m \in ids : \A k \in ids : k <= m

\* a message without an id (0) is given a fresh one
RECURSIVE AssignIds(_, _)
AssignIds(msgs, used) ==
    IF msgs = <<>> THEN <<>>
    ELSE IF Head(msgs).id = 0
         THEN <<[Head(msgs) EXCEPT !.id = used + 1]>> \o AssignIds(Tail(msgs), used + 1)
         ELSE <<Head(msgs)>> \o AssignIds(Tail(msgs), used)

RECURSIVE MergeById(_, _)
MergeById(left, right) ==
    IF right = <<>> THEN left
    ELSE LET m == Head(right)
             hit == {i \in 1..Len(left) : left[i].id = m.id}
         IN  MergeById(IF hit # {}
                       THEN [left EXCEPT ![CHOOSE i \in hit : TRUE] = m]
                       ELSE Append(left, m),
                       Tail(right))

\* faulty variant: appends without matching ids
add_messages_append_only(left, right) ==
    left \o AssignIds(right, MaxId(left))

\* messages: Annotated[list[BaseMessage], add_messages]
add_messages(left, right) ==
    MergeById(left, AssignIds(right, MaxId(left)))

-----------------------------------------------------------------------------
(* nodes.py: supervisor_node *)

SqlWords == {"sql", "database", "table", "query"}

ChartWords == {"plot", "chart", "graph", "visualize", "draw",
               "histogram", "bar", "line", "scatter", "pie"}

has_db(files) == \E f \in Range(files) : EndsWith(Lower(f), ".db")
has_csv(files) == \E f \in Range(files) : EndsWith(Lower(f), ".csv")

\* faulty variant: tests the .csv source before the .db source
supervisor_node_csv_first(state) ==
    IF state.messages = <<>> THEN "general"
    ELSE LET last_message == Last(state.messages)
         IN  IF last_message.type = "assistant" /\ last_message.tool_calls = <<>>
             THEN "general"
             ELSE LET query == Lower(last_message.content)
                      files == state.file_paths
                  IN  IF has_csv(files) THEN "csv_worker"
                      ELSE IF has_db(files) /\ \E word \in SqlWords : Contains(query, word)
                      THEN "sql_worker"
                      ELSE "general"

\* faulty variant: falls back to csv_worker instead of general
supervisor_node_default_csv(state) ==
    IF state.messages = <<>> THEN "general"
    ELSE LET last_message == Last(state.messages)
         IN  IF last_message.type = "assistant" /\ last_message.tool_calls = <<>>
             THEN "general"
             ELSE LET query == Lower(last_message.content)
                      files == state.file_paths
                  IN  IF has_db(files) /\ \E word \in SqlWords : Contains(query, word)
                      THEN "sql_worker"
                      ELSE "csv_worker"

\* returns the value of the "active_worker" key of the returned update
supervisor_node(state) ==
    IF state.messages = <<>> THEN "general"
    ELSE LET last_message == Last(state.messages)
         IN  IF last_message.type = "assistant" /\ last_message.tool_calls = <<>>
             THEN "general"
             ELSE LET query == Lower(last_message.content)
                      files == state.file_paths
                  IN  IF has_db(files) /\ \E word \in SqlWords : Contains(query, word)
                      THEN "sql_worker"
                      ELSE IF has_csv(files) THEN "csv_worker"
                      ELSE "general"

\* [f for f in state.get("file_paths", []) if f.lower().endswith('.csv')]
RECURSIVE csv_files(_)
csv_files(files) ==
    IF files = <<>> THEN <<>>
    ELSE IF EndsWith(Lower(Head(files)), ".csv")
         THEN <<Head(files)>> \o csv_files(Tail(files))
         ELSE csv_files(Tail(files))

\* next(f for f in state["file_paths"] if f.endswith('.db')); None stands for
\* the StopIteration the generator raises when no name matches
RECURSIVE db_lookup(_)
db_lookup(files) ==
    IF files = <<>> THEN None
    ELSE IF EndsWith(Head(files), ".db") THEN Some(Head(files))
         ELSE db_lookup(Tail(files))

has_chart_intent(user_query) ==
    LET lowered == Lower(user_query)
    IN  \E w \in ChartWords : Contains(lowered, w)

-----------------------------------------------------------------------------
(* tools.py *)

\* os.path.basename
RECURSIVE basename(_)
basename(path) ==
    IF \E i \in 1..Len(path) : SubSeq(path, i, i) = "/"
    THEN basename(SubSeq(path,
                         1 + (CHOOSE i \in 1..Len(path) : SubSeq(path, i, i) = "/"),
                         Len(path)))
    ELSE path

\* os.path.splitext(name)[0]: the name up to its last dot (a leading dot is
\* part of the name)
splitext_root(name) ==
    LET dots == {i \in 2..Len(name) : SubSeq(name, i, i) = "."}
    IN  IF dots = {} THEN name
        ELSE SubSeq(name, 1, (CHOOSE i \in dots : \A j \in dots : j <= i) - 1)

\* the pictograph U+1F4CA the code writes before "Chart saved to:", written
\* as one ASCII character
BarChart == "*"

\* what running the submitted code does: print a result, print a result and
\* leave a matplotlib figure open, or raise
ToolEffects == {"ok", "fig", "raise"}

\* os.path.exists(os.path.join("uploads", os.path.basename(name)))
path_exists(name) == present /\ basename(name) \in Range(upload_dir)

\* the string python_analyst returns
python_analyst(args, effect) ==
    IF ~path_exists(args.file_name)
    THEN "Error: " \o args.file_name \o " not found in uploads/."
    ELSE IF effect = "raise" THEN "Python Error: boom"
    ELSE IF effect = "fig"
         THEN "42" \o "\n[Chart saved to charts/"
                   \o splitext_root(basename(args.file_name)) \o "_chart.png]"
         ELSE "42"

\* datetime.now().strftime("%Y%m%d_%H%M%S") and os.path.abspath's prefix
Timestamp == "20261105_101500"
Cwd == "/app"

\* the string db_python_analyst returns; pd.read_sql_query raises on a
\* database file that is missing (sqlite3 creates an empty one) or on a
\* statement sqlite rejects, here the empty statement
db_python_analyst(args, effect) ==
    IF ~path_exists(args.db_file) \/ args.sql_query = "" \/ effect = "raise"
    THEN "Python Error: boom\n\nDetails:\nTraceback"
    ELSE IF effect = "fig"
         THEN "done" \o "\n\n" \o BarChart \o " Chart saved to: " \o Cwd \o "/charts/"
                     \o splitext_root(args.db_file) \o "_chart_" \o Timestamp \o ".png"
         ELSE "done"

\* get_sql_tools: "" when the tools are built, else the exception raised
get_sql_tools(db_file) ==
    IF ~path_exists(db_file)
    THEN "RuntimeError: Database file not found"
    ELSE ""

\* the string the sql_db_query tool returns (run_no_throw: errors are text)
sql_db_query(args, effect) ==
    IF effect = "raise" THEN "Error: (sqlite3.OperationalError) near syntax"
    ELSE "[(1,)]"

\* the threads that execute tool invocations in one server process
Threads == {1, 2}

\* no tool was invoked yet: python_repl = PythonREPL() has empty globals, no
\* figure is open, charts/ is empty
NoInvocation ==
    /\ python_repl_globals = None
    /\ invocations = [t \in Threads |->
                         [pc |-> "idle", tool |-> "", code |-> "", file |-> "",
                          sql_query |-> "", df |-> None, ran_on |-> None,
                          fig_path |-> None]]
    /\ figures = <<>>
    /\ charts = <<>>
    /\ now = 0

-----------------------------------------------------------------------------
(* The update a node returns: the exception it raised ("" if none), the      *)
(* value of its "messages" key and the scalar keys, a key the node does not *)
(* return keeping the state's value.                                         *)

Patch(state, msgs) ==
    [raised |-> "", messages |-> msgs,
     active_worker |-> state.active_worker,
     last_sql_query |-> state.last_sql_query,
     chart_code_generated |-> state.chart_code_generated]

Raise(state, exc) == [Patch(state, <<>>) EXCEPT !.raised = exc]

\* the response parameter of the nodes below when no model call is made
NoResponse == AIMessage("", <<>>)

-----------------------------------------------------------------------------
(* nodes.py: csv_worker_node *)

\* re.search(r"\[Chart saved to (.+?)\]", text).group(1), None if no match
regex_chart_marker(text) ==
    LET pre == "[Chart saved to "
        Ends(i) == {j \in (i + Len(pre) + 1)..Len(text) :
                      /\ SubSeq(text, j, j) = "]"
                      /\ \A k \in (i + Len(pre))..(j - 1) : SubSeq(text, k, k) # "\n"}
        starts == {i \in 1..(Len(text) - Len(pre) + 1) :
                      SubSeq(text, i, i + Len(pre) - 1) = pre /\ Ends(i) # {}}
    IN  IF starts = {} THEN None
        ELSE LET i == CHOOSE a \in starts : \A b \in starts : a <= b
                 j == CHOOSE a \in Ends(i) : \A b \in Ends(i) : a <= b
             IN  Some(SubSeq(text, i + Len(pre), j - 1))

\* faulty variant: the summary is returned as the model wrote it
csv_worker_node_no_suffix(state, response) ==
    LET last_msg == Last(state.messages)
    IN  IF last_msg.type = "tool"
        THEN Patch(state, <<response>>)
        ELSE IF response.tool_calls = <<>>
             THEN Raise(state, "RuntimeError: CSV worker failed to call python_analyst tool.")
             ELSE Patch(state, <<response>>)

\* which model call the node makes in this state
csv_llm_site(state) ==
    IF Last(state.messages).type = "tool" THEN "followup" ELSE "generation"

csv_worker_node(state, response) ==
    LET last_msg == Last(state.messages)
    IN  IF last_msg.type = "tool"
        THEN LET chart_path == IF Contains(last_msg.content, "[Chart saved to")
                               THEN regex_chart_marker(last_msg.content)
                               ELSE None
                 original_content == response.content
             IN  IF TruthyStr(chart_path)
                    /\ ~Contains(original_content, "Chart saved to:")
                 THEN Patch(state, <<[response EXCEPT !.content =
                         original_content \o "\n\n" \o BarChart \o " Chart saved to: "
                                          \o chart_path[1]]>>)
                 ELSE Patch(state, <<response>>)
        ELSE IF response.tool_calls = <<>>
             THEN Raise(state, "RuntimeError: CSV worker failed to call python_analyst tool.")
             ELSE Patch(state, <<response>>)

-----------------------------------------------------------------------------
(* nodes.py: sql_worker_node *)

InconsistencyText == "Error: Unable to generate chart - SQL query not found."

\* faulty variant: the generation prompt always asks for ten rows
limit_instruction_always_limits(state) ==
    "Always limit rows to 10 unless a larger result is explicitly needed."

\* rule 7 of the prompt of the generation call
limit_instruction(state) ==
    IF has_chart_intent(state.messages[1].content)
    THEN "Do NOT limit rows."
    ELSE "Always limit rows to 10 unless a larger result is explicitly needed."

sql_llm_site(state) ==
    IF db_lookup(state.file_paths) = None THEN ""
    ELSE IF get_sql_tools(db_lookup(state.file_paths)[1]) # "" THEN ""
    ELSE IF Last(state.messages).type = "tool"
         THEN IF has_chart_intent(state.messages[1].content) THEN "" ELSE "followup"
         ELSE "generation"

\* faulty variant: the hand-off clears the stored statement
sql_worker_node_clears_query(state, response) ==
    LET db_file == db_lookup(state.file_paths)
    IN
    IF db_file = None THEN Raise(state, "StopIteration")
    ELSE IF get_sql_tools(db_file[1]) # "" THEN Raise(state, get_sql_tools(db_file[1]))
    ELSE IF Last(state.messages).type = "tool"
    THEN LET intent == has_chart_intent(state.messages[1].content)
         IN  IF intent /\ TruthyStr(state.last_sql_query)
             THEN [Patch(state, state.messages) EXCEPT
                      !.active_worker = "db_chart_worker",
                      !.last_sql_query = None]
             ELSE IF intent /\ ~TruthyStr(state.last_sql_query)
             THEN Patch(state, state.messages \o <<AIMessage(InconsistencyText, <<>>)>>)
             ELSE Patch(state, <<response>>)
    ELSE IF response.tool_calls # <<>>
         THEN IF "query" \in DOMAIN response.tool_calls[1].args
              THEN [Patch(state, <<response>>) EXCEPT
                       !.last_sql_query = Some(response.tool_calls[1].args.query)]
              ELSE Raise(state, "KeyError: 'query'")
         ELSE Patch(state, <<response>>)

\* faulty variant: the post-execution phase does not test chart intent
sql_worker_node_ignores_intent(state, response) ==
    LET db_file == db_lookup(state.file_paths)
    IN
    IF db_file = None THEN Raise(state, "StopIteration")
    ELSE IF get_sql_tools(db_file[1]) # "" THEN Raise(state, get_sql_tools(db_file[1]))
    ELSE IF Last(state.messages).type = "tool"
    THEN LET intent == TRUE
         IN  IF intent /\ TruthyStr(state.last_sql_query)
             THEN [Patch(state, state.messages) EXCEPT
                      !.active_worker = "db_chart_worker"]
             ELSE IF intent /\ ~TruthyStr(state.last_sql_query)
             THEN Patch(state, state.messages \o <<AIMessage(InconsistencyText, <<>>)>>)
             ELSE Patch(state, <<response>>)
    ELSE IF response.tool_calls # <<>>
         THEN IF "query" \in DOMAIN response.tool_calls[1].args
              THEN [Patch(state, <<response>>) EXCEPT
                       !.last_sql_query = Some(response.tool_calls[1].args.query)]
              ELSE Raise(state, "KeyError: 'query'")
         ELSE Patch(state, <<response>>)

\* faulty variant: hands off without testing the stored statement
sql_worker_node_unchecked_handoff(state, response) ==
    LET db_file == db_lookup(state.file_paths)
    IN
    IF db_file = None THEN Raise(state, "StopIteration")
    ELSE IF get_sql_tools(db_file[1]) # "" THEN Raise(state, get_sql_tools(db_file[1]))
    ELSE IF Last(state.messages).type = "tool"
    THEN LET intent == has_chart_intent(state.messages[1].content)
         IN  IF intent
             THEN [Patch(state, state.messages) EXCEPT
                      !.active_worker = "db_chart_worker"]
             ELSE IF intent /\ ~TruthyStr(state.last_sql_query)
             THEN Patch(state, state.messages \o <<AIMessage(InconsistencyText, <<>>)>>)
             ELSE Patch(state, <<response>>)
    ELSE IF response.tool_calls # <<>>
         THEN IF "query" \in DOMAIN response.tool_calls[1].args
              THEN [Patch(state, <<response>>) EXCEPT
                       !.last_sql_query = Some(response.tool_calls[1].args.query)]
              ELSE Raise(state, "KeyError: 'query'")
         ELSE Patch(state, <<response>>)

sql_worker_node(state, response) ==
    LET db_file == db_lookup(state.file_paths)
    IN
    IF db_file = None THEN Raise(state, "StopIteration")
    ELSE IF get_sql_tools(db_file[1]) # "" THEN Raise(state, get_sql_tools(db_file[1]))
    ELSE IF Last(state.messages).type = "tool"
    THEN LET intent == has_chart_intent(state.messages[1].content)
         IN  IF intent /\ TruthyStr(state.last_sql_query)
             THEN [Patch(state, state.messages) EXCEPT
                      !.active_worker = "db_chart_worker"]
             ELSE IF intent /\ ~TruthyStr(state.last_sql_query)
             THEN Patch(state, state.messages \o <<AIMessage(InconsistencyText, <<>>)>>)
             ELSE Patch(state, <<response>>)
    ELSE IF response.tool_calls # <<>>
         THEN IF "query" \in DOMAIN response.tool_calls[1].args
              THEN [Patch(state, <<response>>) EXCEPT
                       !.last_sql_query = Some(response.tool_calls[1].args.query)]
              ELSE Raise(state, "KeyError: 'query'")
         ELSE Patch(state, <<response>>)

-----------------------------------------------------------------------------
(* nodes.py: db_chart_worker_node *)

chart_llm_site(state) ==
    IF ~TruthyStr(state.last_sql_query) \/ db_lookup(state.file_paths) = None THEN ""
    ELSE IF Last(state.messages).type = "tool" /\ TruthyBool(state.chart_code_generated)
         THEN "followup"
         ELSE "generation"

\* faulty variant: the summarization phase leaves the flag set
db_chart_worker_node_keeps_flag(state, response) ==
    IF ~TruthyStr(state.last_sql_query)
    THEN Raise(state, "RuntimeError: No SQL query found for chart generation.")
    ELSE IF db_lookup(state.file_paths) = None THEN Raise(state, "StopIteration")
    ELSE IF Last(state.messages).type = "tool" /\ TruthyBool(state.chart_code_generated)
    THEN Patch(state, <<response>>)
    ELSE IF response.tool_calls = <<>>
         THEN Raise(state, "RuntimeError: db_chart_worker failed to call db_python_analyst tool.")
         ELSE [Patch(state, <<response>>) EXCEPT !.chart_code_generated = Some(TRUE)]

db_chart_worker_node(state, response) ==
    IF ~TruthyStr(state.last_sql_query)
    THEN Raise(state, "RuntimeError: No SQL query found for chart generation.")
    ELSE IF db_lookup(state.file_paths) = None THEN Raise(state, "StopIteration")
    ELSE IF Last(state.messages).type = "tool" /\ TruthyBool(state.chart_code_generated)
    THEN [Patch(state, <<response>>) EXCEPT !.chart_code_generated = Some(FALSE)]
    ELSE IF response.tool_calls = <<>>
         THEN Raise(state, "RuntimeError: db_chart_worker failed to call db_python_analyst tool.")
         ELSE [Patch(state, <<response>>) EXCEPT !.chart_code_generated = Some(TRUE)]

-----------------------------------------------------------------------------
(* graph.py: tool nodes and routing functions *)

\* ToolNode([python_analyst]): runs the latest message's tool call
csv_tools(state, effect) ==
    Patch(state, <<ToolMessage(python_analyst(Last(state.messages).tool_calls[1].args, effect))>>)

\* ToolNode([db_python_analyst])
db_chart_tools(state, effect) ==
    Patch(state, <<ToolMessage(db_python_analyst(Last(state.messages).tool_calls[1].args, effect))>>)

\* faulty variant: the returned update resets the stored statement
call_sql_tools_drops_query(state, effect) ==
    LET db_file == db_lookup(state.file_paths)
    IN  IF db_file = None THEN Raise(state, "StopIteration")
        ELSE IF get_sql_tools(db_file[1]) # "" THEN Raise(state, get_sql_tools(db_file[1]))
        ELSE [Patch(state, <<ToolMessage(sql_db_query(Last(state.messages).tool_calls[1].args, effect))>>)
                 EXCEPT !.last_sql_query = None]

call_sql_tools(state, effect) ==
    LET db_file == db_lookup(state.file_paths)
    IN  IF db_file = None THEN Raise(state, "StopIteration")
        ELSE IF get_sql_tools(db_file[1]) # "" THEN Raise(state, get_sql_tools(db_file[1]))
        ELSE [Patch(state, <<ToolMessage(sql_db_query(Last(state.messages).tool_calls[1].args, effect))>>)
                 EXCEPT !.last_sql_query = state.last_sql_query]

HasPendingToolCall(state) ==
    Last(state.messages).type = "ai" /\ Last(state.messages).tool_calls # <<>>

\* the supervisor's conditional edge: lambda state: state["active_worker"]
supervisor_router(state) ==
    CASE state.active_worker = "csv_worker" -> "csv_worker"
      [] state.active_worker = "sql_worker" -> "sql_worker"
      [] state.active_worker = "general" -> "END"

\* faulty variant: the tool edge is missing
csv_router_always_end(state) == "END"

csv_router(state) == IF HasPendingToolCall(state) THEN "csv_tools" ELSE "END"

\* faulty variant: the edge tests the request's chart intent, not active_worker
sql_router_by_intent(state) ==
    IF HasPendingToolCall(state) THEN "sql_tools"
    ELSE IF has_chart_intent(state.messages[1].content) THEN "db_chart_worker"
    ELSE "END"

sql_router(state) ==
    IF HasPendingToolCall(state) THEN "sql_tools"
    ELSE IF state.active_worker = "db_chart_worker" THEN "db_chart_worker"
    ELSE "END"

\* faulty variant: the edge tests the message's class only
db_chart_router_any_ai(state) ==
    IF Last(state.messages).type = "ai" THEN "db_chart_tools" ELSE "END"

db_chart_router(state) == IF HasPendingToolCall(state) THEN "db_chart_tools" ELSE "END"

\* faulty variant: the chart tool's result goes back to the SQL worker
next_node_chart_result_to_sql(n, state) ==
    CASE n = "supervisor" -> supervisor_router(state)
      [] n = "csv_worker" -> csv_router(state)
      [] n = "csv_tools" -> "csv_worker"
      [] n = "sql_worker" -> sql_router(state)
      [] n = "sql_tools" -> "sql_worker"
      [] n = "db_chart_worker" -> db_chart_router(state)
      [] n = "db_chart_tools" -> "sql_worker"

\* create_workflow's edges: the node that follows node n in the state n left
next_node(n, state) ==
    CASE n = "supervisor" -> supervisor_router(state)
      [] n = "csv_worker" -> csv_router(state)
      [] n = "csv_tools" -> "csv_worker"
      [] n = "sql_worker" -> sql_router(state)
      [] n = "sql_tools" -> "sql_worker"
      [] n = "db_chart_worker" -> db_chart_router(state)
      [] n = "db_chart_tools" -> "db_chart_worker"

\* create_workflow's nodes: the update worker n returns
worker_node(n, state, response) ==
    CASE n = "csv_worker" -> csv_worker_node(state, response)
      [] n = "sql_worker" -> sql_worker_node(state, response)
      [] n = "db_chart_worker" -> db_chart_worker_node(state, response)

\* the update tool node n returns
tool_node(n, state, effect) ==
    CASE n = "csv_tools" -> csv_tools(state, effect)
      [] n = "sql_tools" -> call_sql_tools(state, effect)
      [] n = "db_chart_tools" -> db_chart_tools(state, effect)

\* the model call worker n makes in this state: "generation" with its tools
\* declared, "followup" with none, "" when it makes no call
llm_site(n, state) ==
    CASE n = "csv_worker" -> csv_llm_site(state)
      [] n = "sql_worker" -> sql_llm_site(state)
      [] n = "db_chart_worker" -> chart_llm_site(state)

-----------------------------------------------------------------------------
(* The environment: the language model *)

\* the texts the model may write: one without and one with a chart-location
\* phrase
LLMTexts == {"The answer is 42.", "Done. Chart saved to: charts/p_chart.png"}

ToolName(worker) ==
    CASE worker = "csv_worker" -> "python_analyst"
      [] worker = "sql_worker" -> "sql_db_query"
      [] worker = "db_chart_worker" -> "db_python_analyst"

\* the arguments the model may put in a worker's tool call.  The SQL tool set
\* is four toolkit tools all renamed sql_db_query, so a call may carry the
\* arguments of the table-info tool and no "query"; the statement may be empty.
\* The chart worker's prompt names the database file and the stored statement;
\* the call's arguments are the model's, so either may differ from the prompt's.
ArgOptions(worker, state) ==
    CASE worker = "csv_worker" ->
           {[code |-> "print(42)", file_name |-> f] : f \in Range(csv_files(state.file_paths))}
      [] worker = "sql_worker" ->
           {[query |-> "SELECT 1"], [query |-> ""], [table_names |-> "t"]}
      [] worker = "db_chart_worker" ->
           {[code |-> "plt.hist()", db_file |-> db_lookup(state.file_paths)[1], sql_query |-> q] :
               q \in {state.last_sql_query[1], "SELECT 2"}}
           \cup {[code |-> "plt.hist()", db_file |-> "x.db",
                  sql_query |-> state.last_sql_query[1]]}

\* every response the call can return.  With tools declared: a text or a tool
\* call.  With none declared a text is expected; a model that breaks the
\* protocol repeats the worker's tool call.
LLMResponses(worker, site, state) ==
    CASE site = "" -> {NoResponse}
      [] site = "generation" ->
           {AIMessage(t, <<>>) : t \in LLMTexts}
           \cup {AIMessage("", <<[name |-> ToolName(worker), args |-> a]>>) :
                   a \in IF llm_args[worker] # None THEN {llm_args[worker][1]}
                         ELSE ArgOptions(worker, state)}
      [] site = "followup" ->
           {AIMessage(t, <<>>) : t \in LLMTexts}
           \cup {AIMessage("", <<[name |-> ToolName(worker), args |-> llm_args[worker][1]]>>) :
                   x \in IF llm_args[worker] # None THEN {0} ELSE {}}

\* the AgentState the nodes are called with
State ==
    [messages |-> messages, file_paths |-> file_paths,
     active_worker |-> active_worker, last_sql_query |-> last_sql_query,
     chart_code_generated |-> chart_code_generated]

RecordLLM(worker, site, response) ==
    IF site = "" THEN UNCHANGED <<llm_calls, last_llm, llm_args, llm_log, generated_under>>
    ELSE /\ llm_calls' = llm_calls + 1
         /\ llm_log' = Append(llm_log, response)
         /\ generated_under' = IF worker = "sql_worker" /\ site = "generation"
                               THEN Some(limit_instruction(State))
                               ELSE generated_under
         /\ last_llm' = [worker |-> worker, phase |-> site, response |-> response]
         /\ llm_args' = IF response.tool_calls # <<>>
                        THEN [llm_args EXCEPT ![worker] = Some(response.tool_calls[1].args)]
                        ELSE llm_args

-----------------------------------------------------------------------------
(* main.py and the graph run *)

RecursionLimit == 100

\* get_local_files: [f for f in os.listdir(UPLOAD_DIR) if f.lower().endswith((".csv", ".db"))]
RECURSIVE get_local_files(_)
get_local_files(listing) ==
    IF listing = <<>> THEN <<>>
    ELSE IF EndsWith(Lower(Head(listing)), ".csv") \/ EndsWith(Lower(Head(listing)), ".db")
         THEN <<Head(listing)>> \o get_local_files(Tail(listing))
         ELSE get_local_files(Tail(listing))

Listings == {<<>>, <<"n.txt">>, <<"p.csv">>, <<"s.db">>, <<"p.csv", "s.db">>,
             <<"S.DB">>, <<"n.txt", "P.CSV">>}

Prompts == {"tables in database?", "Plot the SQL table", "histogram of prices",
            "average price", "Query online orders"}

Init ==
    /\ upload_dir \in Listings
    /\ present \in BOOLEAN
    /\ prompt \in Prompts
    /\ caller = ""
    /\ messages = <<>>
    /\ file_paths = <<>>
    /\ active_worker = ""
    /\ last_sql_query = None
    /\ chart_code_generated = None
    /\ node = "START"
    /\ steps = 0
    /\ visited = <<>>
    /\ status = "idle"
    /\ answer = ""
    /\ fatal = ""
    /\ llm_calls = 0
    /\ last_llm = [worker |-> "", phase |-> "", response |-> NoResponse]
    /\ llm_args = [w \in {"csv_worker", "sql_worker", "db_chart_worker"} |-> None]
    /\ tool_env = [n \in {"csv_tools", "sql_tools", "db_chart_tools"} |-> None]
    /\ llm_log = <<>>
    /\ generated_under = None
    /\ earlier = None
    /\ ui_text = ""
    /\ ui_chart_path = None
    /\ ui_pass = 0
    /\ NoInvocation

\* faulty variant: the graph keeps a checkpoint per thread_id and the input is
\* written onto the state the thread's last run left
StartRun_resumes_thread(who, files) ==
    /\ caller' = who
    /\ messages' = add_messages(messages, <<HumanMessage(prompt)>>)
    /\ file_paths' = files
    /\ active_worker' = "supervisor"
    /\ node' = "supervisor"
    /\ status' = "running"
    /\ UNCHANGED <<upload_dir, present, prompt, last_sql_query, chart_code_generated,
                   steps, visited, answer, fatal, llm_calls, last_llm, llm_args, tool_env,
                   llm_log, generated_under, outside>>

\* app_graph.invoke(initial_state, config): the graph is compiled without a
\* checkpointer, so "thread_id" restores nothing: the channels start empty,
\* the input's three keys are written through the channels' reducers
\* (last_sql_query and chart_code_generated are not among them) and the entry
\* edge START -> supervisor is taken
StartRun(who, files) ==
    /\ caller' = who
    /\ messages' = add_messages(<<>>, <<HumanMessage(prompt)>>)
    /\ file_paths' = files
    /\ active_worker' = "supervisor"
    /\ last_sql_query' = None
    /\ chart_code_generated' = None
    /\ node' = "supervisor"
    /\ status' = "running"
    /\ UNCHANGED <<upload_dir, present, prompt,
                   steps, visited, answer, fatal, llm_calls, last_llm, llm_args, tool_env,
                   llm_log, generated_under, outside>>

\* faulty variant: the file list is not tested before the graph is invoked
process_query_unchecked ==
    /\ status = "idle"
    /\ StartRun("process_query", get_local_files(upload_dir))

\* POST /query up to the graph invocation
process_query ==
    /\ status = "idle"
    /\ LET available_files == get_local_files(upload_dir)
       IN  IF available_files = <<>>
           THEN /\ status' = "rejected"
                /\ fatal' = "HTTP 400: No data files found in the uploads directory."
                /\ caller' = "process_query"
                /\ UNCHANGED <<upload_dir, present, prompt, messages, file_paths,
                               active_worker, last_sql_query, chart_code_generated,
                               node, steps, visited, answer, llm_calls, last_llm,
                               llm_args, tool_env, llm_log, generated_under, outside>>
           ELSE StartRun("process_query", available_files)

\* the compiled graph invoked by another caller, with the file list it passes
InvokeGraph ==
    /\ status = "idle"
    /\ StartRun("direct", upload_dir)

\* one node visit: the node's update is merged into the state (messages
\* through add_messages, the other keys overwritten) and the node's outgoing
\* edge picks the next node; an exception ends the run
GraphStep(n, update) ==
    /\ status = "running"
    /\ node = n
    /\ steps < RecursionLimit
    /\ steps' = steps + 1
    /\ visited' = Append(visited, n)
    /\ \E u \in {update} :
          IF u.raised # ""
          THEN /\ status' = "failed"
               /\ fatal' = u.raised
               /\ UNCHANGED <<messages, active_worker, last_sql_query,
                              chart_code_generated, node>>
          ELSE \E new \in {[messages |-> add_messages(messages, u.messages),
                            file_paths |-> file_paths,
                            active_worker |-> u.active_worker,
                            last_sql_query |-> u.last_sql_query,
                            chart_code_generated |-> u.chart_code_generated]} :
                  /\ messages' = new.messages
                  /\ active_worker' = new.active_worker
                  /\ last_sql_query' = new.last_sql_query
                  /\ chart_code_generated' = new.chart_code_generated
                  /\ node' = next_node(n, new)
                  /\ UNCHANGED <<status, fatal>>
    /\ UNCHANGED <<upload_dir, present, prompt, caller, file_paths, answer, outside>>

Supervisor ==
    /\ GraphStep("supervisor",
                 [Patch(State, <<>>) EXCEPT !.active_worker = supervisor_node(State)])
    /\ UNCHANGED <<llm_calls, last_llm, llm_args, tool_env, llm_log, generated_under>>

\* does this request repeat the earlier one (same prompt), the environment
\* answering as it did then ?
Repeating == earlier # None /\ earlier[1].same

\* the responses the worker's model call can get; in a repetition the k-th
\* call gets what the earlier request's k-th call got
Responses(n) ==
    IF llm_site(n, State) # "" /\ Repeating /\ Len(llm_log) < Len(earlier[1].llm_log)
    THEN {earlier[1].llm_log[Len(llm_log) + 1]}
    ELSE LLMResponses(n, llm_site(n, State), State)

\* the effects tool node n can have; in a repetition the earlier one's
Effects(n) ==
    IF tool_env[n] # None THEN {tool_env[n][1]}
    ELSE IF Repeating /\ earlier[1].tool_env[n] # None THEN {earlier[1].tool_env[n][1]}
    ELSE ToolEffects

WorkerStep(n) ==
    \E response \in Responses(n) :
        /\ GraphStep(n, worker_node(n, State, response))
        /\ RecordLLM(n, llm_site(n, State), response)
        /\ UNCHANGED tool_env

CsvWorker ==
    /\ node = "csv_worker"
    /\ WorkerStep("csv_worker")

SqlWorker ==
    /\ node = "sql_worker"
    /\ WorkerStep("sql_worker")

DbChartWorker ==
    /\ node = "db_chart_worker"
    /\ WorkerStep("db_chart_worker")

\* a tool node: the tool's effect is the environment's, the same every time
\* the node runs in one run
ToolStep(n) ==
    \E effect \in Effects(n) :
        /\ GraphStep(n, tool_node(n, State, effect))
        /\ tool_env' = [tool_env EXCEPT ![n] = Some(effect)]
        /\ UNCHANGED <<llm_calls, last_llm, llm_args, llm_log, generated_under>>

CsvTools ==
    /\ node = "csv_tools"
    /\ ToolStep("csv_tools")

SqlTools ==
    /\ node = "sql_tools"
    /\ ToolStep("sql_tools")

DbChartTools ==
    /\ node = "db_chart_tools"
    /\ ToolStep("db_chart_tools")

\* faulty variant: the exhausted run is reported as a normal end
RecursionExhausted_swallowed ==
    /\ status = "running"
    /\ node # "END"
    /\ steps >= RecursionLimit
    /\ status' = "ok"
    /\ answer' = Last(messages).content
    /\ UNCHANGED <<upload_dir, present, prompt, caller, messages, file_paths,
                   active_worker, last_sql_query, chart_code_generated, node, steps,
                   visited, fatal, llm_calls, last_llm, llm_args, tool_env,
                   llm_log, generated_under, outside>>

\* "recursion_limit": 100: a node is due and the run has used its steps
RecursionExhausted ==
    /\ status = "running"
    /\ node # "END"
    /\ steps >= RecursionLimit
    /\ status' = "failed"
    /\ fatal' = "GraphRecursionError"
    /\ UNCHANGED <<upload_dir, present, prompt, caller, messages, file_paths,
                   active_worker, last_sql_query, chart_code_generated, node, steps,
                   visited, answer, llm_calls, last_llm, llm_args, tool_env,
                   llm_log, generated_under, outside>>

\* the graph reached END: "answer": final_output["messages"][-1].content
Return ==
    /\ status = "running"
    /\ node = "END"
    /\ status' = "ok"
    /\ answer' = Last(messages).content
    /\ UNCHANGED <<upload_dir, present, prompt, caller, messages, file_paths,
                   active_worker, last_sql_query, chart_code_generated, node, steps,
                   visited, fatal, llm_calls, last_llm, llm_args, tool_env,
                   llm_log, generated_under, outside>>

Next ==
    \/ process_query
    \/ InvokeGraph
    \/ Supervisor
    \/ CsvWorker
    \/ CsvTools
    \/ SqlWorker
    \/ SqlTools
    \/ DbChartWorker
    \/ DbChartTools
    \/ RecursionExhausted
    \/ Return

Spec == Init /\ [][Next]_vars

-----------------------------------------------------------------------------
(* A second request to the same server process *)

\* the longest earlier run after which a second request is followed
MaxEarlierSteps == 8

\* POST /query is served again after a request was answered.  The objects
\* the earlier run left (its final state) are kept in the state variables:
\* they are what a store shared between runs would hold.  The new request
\* carries any prompt; when it is the earlier prompt, the earlier run's
\* responses and outcome are recorded so that the environment can repeat them.
NextRequest ==
    /\ status \in {"ok", "failed", "rejected"}
    /\ earlier = None
    /\ steps <= MaxEarlierSteps
    /\ \E p \in Prompts :
          /\ prompt' = p
          /\ earlier' = Some(IF p = prompt
                             THEN [same |-> TRUE, caller |-> caller, llm_log |-> llm_log,
                                   tool_env |-> tool_env, visited |-> visited,
                                   status |-> status, answer |-> answer, fatal |-> fatal]
                             ELSE [same |-> FALSE, caller |-> "", llm_log |-> <<>>,
                                   tool_env |-> [n \in DOMAIN tool_env |-> None],
                                   visited |-> <<>>,
                                   status |-> "", answer |-> "", fatal |-> ""])
    /\ status' = "idle"
    /\ caller' = ""
    /\ node' = "START"
    /\ steps' = 0
    /\ visited' = <<>>
    /\ answer' = ""
    /\ fatal' = ""
    /\ llm_calls' = 0
    /\ last_llm' = [worker |-> "", phase |-> "", response |-> NoResponse]
    /\ llm_args' = [w \in {"csv_worker", "sql_worker", "db_chart_worker"} |-> None]
    /\ tool_env' = [n \in {"csv_tools", "sql_tools", "db_chart_tools"} |-> None]
    /\ llm_log' = <<>>
    /\ generated_under' = None
    /\ UNCHANGED <<upload_dir, present, messages, file_paths, active_worker,
                   last_sql_query, chart_code_generated, ui_text, ui_chart_path, ui_pass,
                   tools_py>>

NextSessions ==
    \/ Next
    \/ NextRequest

SpecSessions == Init /\ [][NextSessions]_vars

-----------------------------------------------------------------------------
(* app_ui.py: extract_chart_path *)

At(s, i) == SubSeq(s, i, i)

\* does w occur in s at position i ?
StartsAt(s, i, w) ==
    /\ i >= 1
    /\ i + Len(w) - 1 <= Len(s)
    /\ SubSeq(s, i, i + Len(w) - 1) = w

\* does w (in lower case) occur in s at position i, letter case ignored ?
StartsAtI(s, i, w) ==
    /\ i >= 1
    /\ i + Len(w) - 1 <= Len(s)
    /\ \A j \in 1..Len(w) : LowerChar(At(s, i + j - 1)) = At(w, j)

Min(S) == CHOOSE a \in S : \A b \in S : a <= b
Max(S) == CHOOSE a \in S : \A b \in S : b <= a

\* the characters \s matches
IsSpace(c) == c \in {" ", "\n", "\t"}

\* the characters [\w\-_.] matches
NameChars == "abcdefghijklmnopqrstuvwxyzABCDEFGHIJKLMNOPQRSTUVWXYZ0123456789_-."
IsNameChar(c) == \E i \in 1..Len(NameChars) : At(NameChars, i) = c

\* the ends b of a group (.+?\.png) that starts at a: at least one character
\* before ".png", none of them a newline, letter case ignored
GroupEnds(text, a) ==
    {b \in (a + 4)..Len(text) :
        /\ StartsAtI(text, b - 3, ".png")
        /\ \A k \in a..b : At(text, k) # "\n"}

\* str.strip()
RECURSIVE strip(_)
strip(s) ==
    IF s = "" THEN ""
    ELSE IF IsSpace(At(s, 1)) THEN strip(SubSeq(s, 2, Len(s)))
    ELSE IF IsSpace(At(s, Len(s))) THEN strip(SubSeq(s, 1, Len(s) - 1))
    ELSE s

\* re.search(r"saved to:\s*(.+?\.png)", text, re.IGNORECASE): group(1) of the
\* leftmost match (\s* greedy, the group lazy), None if there is no match
search_saved_to(text) ==
    LET pre == "saved to:"
        Skips(i) == {k \in 0..Len(text) :
                        /\ \A j \in (i + Len(pre))..(i + Len(pre) + k - 1) :
                              j <= Len(text) /\ IsSpace(At(text, j))
                        /\ GroupEnds(text, i + Len(pre) + k) # {}}
        starts == {i \in 1..Len(text) : StartsAtI(text, i, pre) /\ Skips(i) # {}}
    IN  IF starts = {} THEN None
        ELSE LET a == Min(starts) + Len(pre) + Max(Skips(Min(starts)))
             IN  Some(SubSeq(text, a, Min(GroupEnds(text, a))))

\* re.search(r"\[Chart saved to\s+(.+?\.png)\]", text, re.IGNORECASE)
search_marker(text) ==
    LET pre == "[chart saved to"
        Ends(a) == {b \in GroupEnds(text, a) : StartsAt(text, b + 1, "]")}
        Skips(i) == {k \in 1..Len(text) :
                        /\ \A j \in (i + Len(pre))..(i + Len(pre) + k - 1) :
                              j <= Len(text) /\ IsSpace(At(text, j))
                        /\ Ends(i + Len(pre) + k) # {}}
        starts == {i \in 1..Len(text) : StartsAtI(text, i, pre) /\ Skips(i) # {}}
    IN  IF starts = {} THEN None
        ELSE LET a == Min(starts) + Len(pre) + Max(Skips(Min(starts)))
             IN  Some(SubSeq(text, a, Min(Ends(a))))

\* re.search(r"charts[/\\]([\w\-_.]+\.png)", full_path, re.IGNORECASE):
\* group(1) of the leftmost match (the name greedy), None if no match
search_charts_dir(full_path) ==
    LET Stops(g) == {q \in g..Len(full_path) :
                        /\ \A k \in g..q : IsNameChar(At(full_path, k))
                        /\ StartsAtI(full_path, q + 1, ".png")}
        starts == {i \in 1..Len(full_path) :
                      /\ StartsAtI(full_path, i, "charts")
                      /\ At(full_path, i + 6) \in {"/", "\\"}
                      /\ Stops(i + 7) # {}}
    IN  IF starts = {} THEN None
        ELSE Some(SubSeq(full_path, Min(starts) + 7, Max(Stops(Min(starts) + 7)) + 4))

\* str.replace("\\", "/")
RECURSIVE replace_backslash(_)
replace_backslash(s) ==
    IF s = "" THEN ""
    ELSE (IF At(s, 1) = "\\" THEN "/" ELSE At(s, 1)) \o replace_backslash(SubSeq(s, 2, Len(s)))

\* what extract_chart_path makes of a matched group
relative_chart_path(group) ==
    LET full_path == strip(group)
    IN  IF Contains(Lower(full_path), "charts") /\ search_charts_dir(full_path) # None
        THEN "charts/" \o search_charts_dir(full_path)[1]
        ELSE IF StartsAt(full_path, 1, "charts") THEN replace_backslash(full_path)
        ELSE full_path

\* extract_chart_path(text): None when neither pattern matches
extract_chart_path(text) ==
    IF search_saved_to(text) # None THEN Some(relative_chart_path(search_saved_to(text)[1]))
    ELSE IF search_marker(text) # None THEN Some(relative_chart_path(search_marker(text)[1]))
    ELSE None

\* the chart files an answer may name: the directory prefix before "charts",
\* the separator after it and the file name
ChartFiles ==
    {[prefix |-> "", sep |-> "/", name |-> "x.png"],
     [prefix |-> "", sep |-> "/", name |-> "p_chart.png"],
     [prefix |-> "/home/u/project/", sep |-> "/", name |-> "x.png"],
     [prefix |-> "C:\\Users\\u\\", sep |-> "\\", name |-> "x.png"],
     [prefix |-> "/home/u/CSV&SQL agent/", sep |-> "/", name |-> "x.png"],
     [prefix |-> Cwd \o "/", sep |-> "/", name |-> "s_chart_" \o Timestamp \o ".png"],
     [prefix |-> "/home/u/", sep |-> "/", name |-> "my data_chart.png"],
     [prefix |-> "/home/u.png/", sep |-> "/", name |-> "x.png"]}

PathOf(c) == c.prefix \o "charts" \o c.sep \o c.name

\* what precedes the chart phrase in an answer
Leads == {"", "42\n", "The answer is 42.\n\n", "Done. "}

\* python_analyst's marker and the long form of csv_worker_node and
\* db_python_analyst
MarkerForm(lead, c) == lead \o "[Chart saved to " \o PathOf(c) \o "]"
LongForm(lead, c) == lead \o BarChart \o " Chart saved to: " \o PathOf(c)

\* the answers the front end may receive
AnswerTexts ==
    {MarkerForm(l, c) : l \in Leads, c \in ChartFiles}
    \cup {LongForm(l, c) : l \in Leads, c \in ChartFiles}
    \cup LLMTexts

\* the front end holding an answer of POST /query; the server is idle
InitExtract ==
    /\ upload_dir = <<"p.csv", "s.db">>
    /\ present = TRUE
    /\ prompt = "histogram of prices"
    /\ caller = ""
    /\ messages = <<>>
    /\ file_paths = <<>>
    /\ active_worker = ""
    /\ last_sql_query = None
    /\ chart_code_generated = None
    /\ node = "START"
    /\ steps = 0
    /\ visited = <<>>
    /\ status = "idle"
    /\ answer = ""
    /\ fatal = ""
    /\ llm_calls = 0
    /\ last_llm = [worker |-> "", phase |-> "", response |-> NoResponse]
    /\ llm_args = [w \in {"csv_worker", "sql_worker", "db_chart_worker"} |-> None]
    /\ tool_env = [n \in {"csv_tools", "sql_tools", "db_chart_tools"} |-> None]
    /\ llm_log = <<>>
    /\ generated_under = None
    /\ earlier = None
    /\ ui_text \in AnswerTexts
    /\ ui_chart_path = None
    /\ ui_pass = 0
    /\ NoInvocation

server == <<upload_dir, present, prompt, caller, messages, file_paths,
            active_worker, last_sql_query, chart_code_generated, node, steps,
            visited, status, answer, fatal, llm_calls, last_llm, llm_args,
            tool_env, llm_log, generated_under, earlier>>

\* chart_path = extract_chart_path(answer)
ShowAnswer ==
    /\ ui_pass = 0
    /\ ui_chart_path' = extract_chart_path(ui_text)
    /\ ui_pass' = 1
    /\ UNCHANGED <<ui_text, server, tools_py>>

\* extract_chart_path applied to the path it returned
ReApply ==
    /\ ui_pass = 1
    /\ ui_chart_path # None
    /\ ui_text' = ui_chart_path[1]
    /\ ui_chart_path' = extract_chart_path(ui_chart_path[1])
    /\ ui_pass' = 2
    /\ UNCHANGED <<server, tools_py>>

NextExtract ==
    \/ ShowAnswer
    \/ ReApply

SpecExtract == InitExtract /\ [][NextExtract]_vars

-----------------------------------------------------------------------------
(* supervisor_node on any state: the compiled graph entered with a history  *)
(* of the caller's choosing                                                  *)

\* the histories a caller may pass: none, the request, the request answered
\* by an assistant text, the request followed by a tool call that is
\* outstanding or answered
Histories(p) ==
    {<<>>, <<HumanMessage(p)>>,
     <<HumanMessage(p), AIMessage("", <<[name |-> "python_analyst",
                                          args |-> [code |-> "print(42)", file_name |-> "p.csv"]]>>)>>,
     <<HumanMessage(p), AIMessage("", <<[name |-> "python_analyst",
                                          args |-> [code |-> "print(42)", file_name |-> "p.csv"]]>>),
       ToolMessage("42")>>}
    \cup {<<HumanMessage(p), AIMessage(t, <<>>)>> :
             t \in LLMTexts \cup {"The database has 3 tables."}}

InitRouter ==
    /\ upload_dir \in Listings
    /\ present \in BOOLEAN
    /\ prompt \in Prompts
    /\ caller = "direct"
    /\ messages \in {add_messages(<<>>, h) : h \in Histories(prompt)}
    /\ file_paths = upload_dir
    /\ active_worker = "supervisor"
    /\ last_sql_query = None
    /\ chart_code_generated = None
    /\ node = "supervisor"
    /\ steps = 0
    /\ visited = <<>>
    /\ status = "running"
    /\ answer = ""
    /\ fatal = ""
    /\ llm_calls = 0
    /\ last_llm = [worker |-> "", phase |-> "", response |-> NoResponse]
    /\ llm_args = [w \in {"csv_worker", "sql_worker", "db_chart_worker"} |-> None]
    /\ tool_env = [n \in {"csv_tools", "sql_tools", "db_chart_tools"} |-> None]
    /\ llm_log = <<>>
    /\ generated_under = None
    /\ earlier = None
    /\ ui_text = ""
    /\ ui_chart_path = None
    /\ ui_pass = 0
    /\ NoInvocation

NextRouter == Supervisor

SpecRouter == InitRouter /\ [][NextRouter]_vars

-----------------------------------------------------------------------------
(* tools.py: python_analyst and db_python_analyst executed by threads of one *)
(* process.  python_repl is one module-level object and pyplot keeps one     *)
(* list of open figures per process; a thread may be preempted between any   *)
(* two statements, so each numbered step of the tools is one action.         *)

\* how many seconds pass while the invocations are followed
MaxSeconds == 1

\* datetime.now().strftime("%Y%m%d_%H%M%S")
strftime(sec) == "20261105_10150" \o SubSeq("0123456789", sec + 1, sec + 1)

\* the code a call submits: one that prints, one that also draws a figure
Codes == {"print(42)", "plt.hist()"}

\* the calls the tool nodes make
ToolCalls ==
    {[tool |-> "python_analyst", code |-> c, file |-> f, sql_query |-> ""] :
        c \in Codes, f \in {"p.csv", "q.csv", "n.csv"}}
    \cup {[tool |-> "db_python_analyst", code |-> c, file |-> "s.db", sql_query |-> q] :
        c \in Codes, q \in {"SELECT 1", "SELECT 2"}}

\* df: pd.read_csv(file_path), or pd.read_sql_query(sql_query, conn); a table
\* is named by where it was read from
read_table(inv) ==
    IF inv.tool = "python_analyst" THEN "uploads/" \o basename(inv.file)
    ELSE "uploads/" \o inv.file \o ": " \o inv.sql_query

\* fig_path: os.path.join(charts_dir, fig_name)
fig_path(inv, sec) ==
    IF inv.tool = "python_analyst"
    THEN "charts/" \o splitext_root(basename(inv.file)) \o "_chart.png"
    ELSE "charts/" \o splitext_root(inv.file) \o "_chart_" \o strftime(sec) \o ".png"

\* a tool node's thread enters python_analyst or db_python_analyst
Invoke(t) ==
    /\ invocations[t].pc = "idle"
    /\ \E call \in ToolCalls :
          invocations' = [invocations EXCEPT ![t] =
              [pc |-> "called", tool |-> call.tool, code |-> call.code,
               file |-> call.file, sql_query |-> call.sql_query,
               df |-> None, ran_on |-> None, fig_path |-> None]]
    /\ UNCHANGED <<python_repl_globals, figures, charts, now>>
    /\ UNCHANGED <<server, ui_text, ui_chart_path, ui_pass>>

\* steps 1 and 2: the file is looked up and loaded; a missing file ends the
\* invocation with an error text
LoadTable(t) ==
    /\ invocations[t].pc = "called"
    /\ LET inv == invocations[t]
       IN  invocations' = [invocations EXCEPT ![t] =
              IF ~path_exists(inv.file)
              THEN [inv EXCEPT !.pc = "returned"]
              ELSE [inv EXCEPT !.pc = "loaded", !.df = Some(read_table(inv))]]
    /\ UNCHANGED <<python_repl_globals, figures, charts, now>>
    /\ UNCHANGED <<server, ui_text, ui_chart_path, ui_pass>>

\* python_repl.globals = {"df": df, "pd": pd, "plt": plt}
InjectGlobals(t) ==
    /\ invocations[t].pc = "loaded"
    /\ python_repl_globals' = invocations[t].df
    /\ invocations' = [invocations EXCEPT ![t].pc = "injected"]
    /\ UNCHANGED <<figures, charts, now>>
    /\ UNCHANGED <<server, ui_text, ui_chart_path, ui_pass>>

\* result = python_repl.run(code): the code is executed with the globals
\* python_repl holds when run is called; code that draws leaves a figure open
Execute(t) ==
    /\ invocations[t].pc = "injected"
    /\ invocations' = [invocations EXCEPT ![t].pc = "executed",
                                          ![t].ran_on = python_repl_globals]
    /\ figures' = IF invocations[t].code = "plt.hist()"
                  THEN Append(figures, [by |-> t, df |-> python_repl_globals[1]])
                  ELSE figures
    /\ UNCHANGED <<python_repl_globals, charts, now>>
    /\ UNCHANGED <<server, ui_text, ui_chart_path, ui_pass>>

\* figs = [plt.figure(n) for n in plt.get_fignums()]; if figs: the latest
\* figure is saved under fig_path and closed; the returned text names fig_path
SaveFigure(t) ==
    /\ invocations[t].pc = "executed"
    /\ IF figures = <<>>
       THEN /\ invocations' = [invocations EXCEPT ![t].pc = "returned"]
            /\ UNCHANGED <<figures, charts>>
       ELSE \E path \in {fig_path(invocations[t], now)} :
               /\ charts' = [p \in DOMAIN charts \cup {path} |->
                                IF p = path THEN Last(figures) ELSE charts[p]]
               /\ figures' = SubSeq(figures, 1, Len(figures) - 1)
               /\ invocations' = [invocations EXCEPT ![t].pc = "returned",
                                                     ![t].fig_path = Some(path)]
    /\ UNCHANGED <<python_repl_globals, now>>
    /\ UNCHANGED <<server, ui_text, ui_chart_path, ui_pass>>

\* a second passes
Tick ==
    /\ now < MaxSeconds
    /\ now' = now + 1
    /\ UNCHANGED <<python_repl_globals, invocations, figures, charts>>
    /\ UNCHANGED <<server, ui_text, ui_chart_path, ui_pass>>

InitTools ==
    /\ upload_dir = <<"p.csv", "q.csv", "s.db">>
    /\ present = TRUE
    /\ prompt = "histogram of prices"
    /\ caller = ""
    /\ messages = <<>>
    /\ file_paths = <<>>
    /\ active_worker = ""
    /\ last_sql_query = None
    /\ chart_code_generated = None
    /\ node = "START"
    /\ steps = 0
    /\ visited = <<>>
    /\ status = "idle"
    /\ answer = ""
    /\ fatal = ""
    /\ llm_calls = 0
    /\ last_llm = [worker |-> "", phase |-> "", response |-> NoResponse]
    /\ llm_args = [w \in {"csv_worker", "sql_worker", "db_chart_worker"} |-> None]
    /\ tool_env = [n \in {"csv_tools", "sql_tools", "db_chart_tools"} |-> None]
    /\ llm_log = <<>>
    /\ generated_under = None
    /\ earlier = None
    /\ ui_text = ""
    /\ ui_chart_path = None
    /\ ui_pass = 0
    /\ NoInvocation

NextTools ==
    \/ \E t \in Threads : Invoke(t)
    \/ \E t \in Threads : LoadTable(t)
    \/ \E t \in Threads : InjectGlobals(t)
    \/ \E t \in Threads : Execute(t)
    \/ \E t \in Threads : SaveFigure(t)
    \/ Tick

SpecTools == InitTools /\ [][NextTools]_vars

-----------------------------------------------------------------------------
(* Claims *)

Workers == {"csv_worker", "sql_worker", "db_chart_worker"}

\* the history the run starts from
InitialMessages == <<[HumanMessage(prompt) EXCEPT !.id = 1]>>

JustRouted == status = "running" /\ visited = <<"supervisor">>

\* C1: right after the supervisor ran on the user's message, active_worker is
\* sql_worker if a file name ends in .db (in any letter case) and the
\* lower-cased text contains "sql", "database", "table" or "query"; otherwise
\* csv_worker if a file name ends in .csv; otherwise general.  A .db file plus
\* "database" selects sql_worker although a .csv file is present, and only
\* .csv files without an SQL word select csv_worker.
C1_RouterPriorityTable ==
    JustRouted =>
        /\ active_worker =
              IF has_db(file_paths)
                 /\ \E w \in {"sql", "database", "table", "query"} : Contains(Lower(prompt), w)
              THEN "sql_worker"
              ELSE IF has_csv(file_paths) THEN "csv_worker" ELSE "general"
        /\ (file_paths = <<"p.csv", "s.db">> /\ prompt = "tables in database?")
              => active_worker = "sql_worker"
        /\ (file_paths = <<"p.csv">> /\ prompt = "histogram of prices")
              => active_worker = "csv_worker"
        /\ (file_paths = <<"p.csv", "s.db">> /\ prompt = "histogram of prices")
              => active_worker = "csv_worker"

C1_Witness ==
    /\ JustRouted
    /\ file_paths = <<"p.csv", "s.db">>
    /\ prompt = "tables in database?"
    /\ active_worker = "sql_worker"

\* C2: a run whose file list holds no .csv and no .db name ends right after
\* the supervisor: no worker or tool node is visited, no model call is made,
\* the run does not fail and the history stays the initial one.
C2_NoSourceEndsAfterSupervisor ==
    (status \in {"running", "ok", "failed"} /\ ~has_db(file_paths) /\ ~has_csv(file_paths))
        => /\ status # "failed"
           /\ visited \in {<<>>, <<"supervisor">>}
           /\ visited = <<"supervisor">> => (node = "END" /\ active_worker = "general")
           /\ llm_calls = 0
           /\ messages = InitialMessages

C2_Witness ==
    /\ status = "ok"
    /\ file_paths = <<"n.txt">>
    /\ visited = <<"supervisor">>
    /\ messages = InitialMessages

\* C3 as stated: every run that ends without a fatal error ends with an
\* assistant message without tool call, emitted by a worker, as its last
\* message, and that text is the answer process_query returns.
C3_Original ==
    (status = "ok" /\ caller = "process_query") =>
        /\ Last(messages).type = "ai"
        /\ Last(messages).tool_calls = <<>>
        /\ Last(visited) \in Workers
        /\ answer = Last(messages).content

\* C3 amended: a run in which the supervisor selected a worker and that ends
\* without a fatal error ends with an assistant message without tool call,
\* emitted by a worker; a run routed to general ends with the user's message
\* last; in both the last message's text is the answer returned.
C3_AnswerIsLastMessage ==
    status = "ok" =>
        /\ answer = Last(messages).content
        /\ IF visited = <<"supervisor">>
           THEN messages = InitialMessages
           ELSE /\ Last(messages).type = "ai"
                /\ Last(messages).tool_calls = <<>>
                /\ Last(visited) \in Workers
                /\ Len(messages) >= 2

C3_Witness ==
    /\ status = "ok"
    /\ visited = <<"supervisor", "csv_worker", "csv_tools", "csv_worker">>
    /\ Last(messages).type = "ai"
    /\ answer = "The answer is 42."

\* C4: when a worker's generation call returns text without a tool call the
\* run fails, and that response is neither appended nor returned.
C4_GenerationTextIsFatal ==
    (last_llm.phase = "generation" /\ last_llm.response.tool_calls = <<>>)
        => /\ status = "failed"
           /\ ~(Last(messages).type = "ai"
                /\ Last(messages).content = last_llm.response.content)
           /\ answer # last_llm.response.content

SqlPostExecution ==
    /\ status = "running"
    /\ node = "sql_worker"
    /\ Last(messages).type = "tool"

\* C5: with a statement stored, the SQL worker's post-execution step on a
\* chart request sets active_worker to db_chart_worker, makes db_chart_worker
\* the next node and leaves last_sql_query as it was.
C5_HandOffKeepsQuery ==
    [][(SqlPostExecution /\ has_chart_intent(messages[1].content)
          /\ TruthyStr(last_sql_query))
         => /\ status' = "running"
            /\ active_worker' = "db_chart_worker"
            /\ node' = "db_chart_worker"
            /\ last_sql_query' = last_sql_query]_vars

C5_Witness ==
    /\ status = "running"
    /\ visited # <<>>
    /\ Last(visited) = "sql_worker"
    /\ node = "db_chart_worker"
    /\ active_worker = "db_chart_worker"
    /\ last_sql_query = Some("SELECT 1")

\* C6: when the request holds no chart word, db_chart_worker and
\* db_chart_tools are never visited and active_worker never becomes
\* db_chart_worker; the SQL worker's post-execution step appends exactly one
\* message, the model's summary, and the run ends there when that summary is
\* the plain text a call without declared tools returns.
C6_NoChartIntentNoChartWorker ==
    /\ []((status # "idle" /\ ~has_chart_intent(prompt))
            => /\ "db_chart_worker" \notin Range(visited)
               /\ "db_chart_tools" \notin Range(visited)
               /\ node \notin {"db_chart_worker", "db_chart_tools"}
               /\ active_worker # "db_chart_worker")
    /\ [][(SqlPostExecution /\ ~has_chart_intent(prompt))
            => /\ status' = "running"
               /\ Len(messages') = Len(messages) + 1
               /\ SubSeq(messages', 1, Len(messages)) = messages
               /\ Last(messages').type = "ai"
               /\ Last(messages').tool_calls = <<>> => node' = "END"]_vars

C6_Witness ==
    /\ status = "ok"
    /\ ~has_chart_intent(prompt)
    /\ visited = <<"supervisor", "sql_worker", "sql_tools", "sql_worker">>
    /\ Len(messages) = 4

\* C7: a run never makes more than RecursionLimit node visits: when a node is
\* due after that many the run ends with a fatal error given to the caller.
C7_StepLimitEndsRun ==
    /\ [](steps <= RecursionLimit /\ Len(visited) = steps)
    /\ [][(status = "running" /\ node # "END" /\ steps = RecursionLimit)
            => /\ status' = "failed"
               /\ fatal' = "GraphRecursionError"
               /\ steps' = steps]_vars

C7_Witness ==
    /\ status = "failed"
    /\ fatal = "GraphRecursionError"
    /\ caller = "process_query"
    /\ steps = RecursionLimit
    /\ visited[steps] = "csv_worker"
    /\ visited[steps - 1] = "csv_tools"
    /\ node = "csv_tools"

\* C8: the history is append-only: a step keeps every message in place and
\* adds at most one with an id not in use; the first message is always the
\* user's request; the hand-off step leaves the history as it is and the
\* inconsistency branch adds exactly one message.
C8_HistoryAppendOnly ==
    /\ [](messages # <<>> => messages[1] = InitialMessages[1])
    /\ [][(status = "running" /\ messages' # messages)
            => /\ Len(messages') = Len(messages) + 1
               /\ SubSeq(messages', 1, Len(messages)) = messages
               /\ \A i \in 1..Len(messages) : messages[i].id # Last(messages').id]_vars
    /\ [][(SqlPostExecution /\ node' = "db_chart_worker") => messages' = messages]_vars
    /\ [][(SqlPostExecution /\ has_chart_intent(messages[1].content)
             /\ ~TruthyStr(last_sql_query))
            => (Len(messages') = Len(messages) + 1
                /\ SubSeq(messages', 1, Len(messages)) = messages)]_vars

C8_Witness ==
    /\ status = "ok"
    /\ visited = <<"supervisor", "sql_worker", "sql_tools", "sql_worker",
                   "db_chart_worker", "db_chart_tools", "db_chart_worker">>
    /\ Len(messages) = 6
    /\ messages[1] = InitialMessages[1]

\* C9: on a chart request with no statement stored the SQL worker's
\* post-execution step appends one assistant error message without tool call,
\* leaves active_worker alone and ends the graph; the chart worker is not
\* visited and the error text is the answer of a run that ends normally.
C9_InconsistencyIsRecoverable ==
    /\ [][(SqlPostExecution /\ has_chart_intent(messages[1].content)
             /\ ~TruthyStr(last_sql_query))
            => /\ status' = "running"
               /\ Len(messages') = Len(messages) + 1
               /\ SubSeq(messages', 1, Len(messages)) = messages
               /\ Last(messages').type = "ai"
               /\ Last(messages').content = InconsistencyText
               /\ Last(messages').tool_calls = <<>>
               /\ active_worker' = active_worker
               /\ active_worker' # "db_chart_worker"
               /\ node' = "END"]_vars
    /\ []((messages # <<>> /\ Last(messages).content = InconsistencyText)
            => /\ status \in {"running", "ok"}
               /\ "db_chart_worker" \notin Range(visited)
               /\ status = "ok" => answer = InconsistencyText)

C9_Witness ==
    /\ status = "ok"
    /\ answer = InconsistencyText
    /\ last_sql_query = Some("")
    /\ Last(visited) = "sql_worker"

\* C10: a failure while executing a tool (code raises, statement malformed,
\* data file missing) never aborts the run: it becomes a tool-result message
\* and the owning worker runs next.
C10_ToolFailureNeverAborts ==
    /\ status = "failed" => fatal # "RuntimeError: Database file not found"
    /\ (status = "running" /\ messages # <<>> /\ Last(messages).type = "tool")
          => node \in Workers

\* the chart tool's calls that were executed: positions of the history holding
\* a db_python_analyst call followed by its tool result
ExecutedChartCalls ==
    {i \in 1..(Len(messages) - 1) :
        /\ messages[i].type = "ai"
        /\ messages[i].tool_calls # <<>>
        /\ messages[i].tool_calls[1].name = "db_python_analyst"
        /\ messages[i + 1].type = "tool"}

\* C11: every executed call of the chart tool carries, as its statement, the
\* value the SQL worker stored in last_sql_query in this run and, as its
\* database file, the .db name of the run's file list.
C11_ChartToolRunsStoredQuery ==
    \A i \in ExecutedChartCalls :
        /\ last_sql_query # None
        /\ messages[i].tool_calls[1].args.sql_query = last_sql_query[1]
        /\ Some(messages[i].tool_calls[1].args.db_file) = db_lookup(file_paths)

\* C12: db_chart_worker is due or visited only with a non-empty statement in
\* last_sql_query, on its first entry (after the SQL worker) and on its second
\* (after db_chart_tools); no run fails with "No SQL query found for chart
\* generation".
C12_ChartWorkerHasQuery ==
    /\ (node = "db_chart_worker" \/ "db_chart_worker" \in Range(visited))
          => TruthyStr(last_sql_query)
    /\ fatal # "RuntimeError: No SQL query found for chart generation."

C12_Witness ==
    /\ status = "running"
    /\ node = "db_chart_worker"
    /\ visited # <<>>
    /\ Last(visited) = "db_chart_tools"
    /\ last_sql_query = Some("SELECT 1")

\* C13: in a run last_sql_query changes at most once: a set value is kept by
\* every later step (sql_tools, the SQL worker's post-execution step, the chart
\* worker, db_chart_tools), and the one change is made by the SQL worker's
\* query-generation step, which stores the statement of the tool call it
\* appends.
C13_QueryWrittenOnce ==
    /\ [][(status = "running" /\ last_sql_query # None)
            => last_sql_query' = last_sql_query]_vars
    /\ [][(status = "running" /\ last_sql_query' # last_sql_query)
            => /\ node = "sql_worker"
               /\ Last(messages).type # "tool"
               /\ Last(messages').type = "ai"
               /\ Last(messages').tool_calls # <<>>
               /\ last_sql_query' = Some(Last(messages').tool_calls[1].args.query)]_vars

C13_Witness ==
    /\ status = "ok"
    /\ last_sql_query = Some("SELECT 1")
    /\ "sql_tools" \in Range(visited)
    /\ "db_chart_tools" \in Range(visited)
    /\ Last(visited) = "db_chart_worker"

ChartSummarization ==
    /\ status = "running"
    /\ node = "db_chart_worker"
    /\ Last(messages).type = "tool"
    /\ TruthyBool(chart_code_generated)

\* C14: chart_code_generated changes only in chart-worker steps.  It becomes
\* true only in a chart-worker step that is not a summarization and appends a
\* tool call; db_chart_tools keeps it; the chart worker's step on a tool result
\* with the flag true (the summarization) sets it false and appends the model's
\* summary, and no other step sets it false.  While it is true the run is
\* between those two steps, and it is not true when a run ends normally.
C14_ChartFlagLifecycle ==
    /\ [](TruthyBool(chart_code_generated)
            => /\ status \in {"running", "failed"}
               /\ \/ node = "db_chart_tools" /\ Last(visited) = "db_chart_worker"
                        /\ HasPendingToolCall(State)
                  \/ node = "db_chart_worker" /\ Last(visited) = "db_chart_tools"
                        /\ Last(messages).type = "tool")
    /\ [](status = "ok" => ~TruthyBool(chart_code_generated))
    /\ [][(status = "running" /\ chart_code_generated' # chart_code_generated)
            => node = "db_chart_worker"]_vars
    /\ [][(status = "running" /\ node = "db_chart_worker" /\ status' = "running"
             /\ ~ChartSummarization)
            => (chart_code_generated' = Some(TRUE) /\ HasPendingToolCall(State'))]_vars
    /\ [][ChartSummarization
            => /\ status' = "running"
               /\ chart_code_generated' = Some(FALSE)
               /\ Len(messages') = Len(messages) + 1
               /\ Last(messages') = [last_llm'.response EXCEPT !.id = Len(messages')]]_vars
    /\ [][(status = "running" /\ chart_code_generated' = Some(FALSE)
             /\ chart_code_generated # Some(FALSE))
            => ChartSummarization]_vars

C14_Witness ==
    /\ status = "ok"
    /\ chart_code_generated = Some(FALSE)
    /\ Last(visited) = "db_chart_worker"
    /\ Len(visited) = 7

CsvSummarization ==
    /\ status = "running"
    /\ node = "csv_worker"
    /\ Last(messages).type = "tool"

\* the number of places where w occurs in s
Occurrences(s, w) ==
    Cardinality({i \in 1..(Len(s) - Len(w) + 1) : SubSeq(s, i, i + Len(w) - 1) = w})

\* C15: the tabular worker's step on a tool result appends one assistant
\* message.  If the tool result holds a marker "[Chart saved to <path>]" the
\* message's text contains "Chart saved to:": it is the model's text when that
\* text contains the phrase, and otherwise the model's text followed by one
\* suffix that names <path>.  If the tool result holds no marker the message's
\* text is the model's text.
C15_ChartSuffix ==
    [][CsvSummarization =>
          LET tool == Last(messages).content
              text == last_llm'.response.content
              out == Last(messages').content
          IN  /\ status' = "running"
              /\ Len(messages') = Len(messages) + 1
              /\ Last(messages').type = "ai"
              /\ last_llm'.worker = "csv_worker"
              /\ IF regex_chart_marker(tool) # None
                 THEN /\ Contains(out, "Chart saved to:")
                      /\ IF Contains(text, "Chart saved to:")
                         THEN out = text
                         ELSE /\ out = text \o "\n\n* Chart saved to: "
                                            \o regex_chart_marker(tool)[1]
                              /\ Occurrences(out, "Chart saved to:") = 1
                 ELSE out = text
              /\ (tool = "42\n[Chart saved to charts/p_chart.png]"
                    /\ text = "The answer is 42.")
                   => out = "The answer is 42.\n\n* Chart saved to: charts/p_chart.png"
              /\ tool = "42" => out = text]_vars

C15_Witness ==
    /\ status = "ok"
    /\ Len(messages) = 4
    /\ messages[3].content = "42\n[Chart saved to charts/p_chart.png]"
    /\ answer = "The answer is 42.\n\n* Chart saved to: charts/p_chart.png"

C17_SupervisorDoneCases ==
    (JustRouted /\ (messages = <<>>
                     \/ (Last(messages).type = "ai" /\ Last(messages).tool_calls = <<>>)))
        => active_worker = "general"

ToolNodes == {"csv_tools", "sql_tools", "db_chart_tools"}

Owner(n) ==
    CASE n = "csv_tools" -> "csv_worker"
      [] n = "sql_tools" -> "sql_worker"
      [] n = "db_chart_tools" -> "db_chart_worker"

\* C18: a tool node is due only right after its owning worker's visit and with
\* an assistant message holding a tool call as the latest message; in the
\* order of visits a tool node is preceded by its owning worker and, when a
\* node is visited after it, followed by that worker; every step visits one
\* node, the one that was due.
C18_ToolNodeOrdering ==
    /\ Len(visited) = steps
    /\ node \in {"START", "END", "supervisor"} \cup Workers \cup ToolNodes
    /\ \A i \in 1..Len(visited) :
          visited[i] \in ToolNodes
             => /\ i > 1
                /\ visited[i - 1] = Owner(visited[i])
                /\ i < Len(visited) => visited[i + 1] = Owner(visited[i])
    /\ (status = "running" /\ node \in ToolNodes)
          => /\ Last(visited) = Owner(node)
             /\ HasPendingToolCall(State)
    /\ (status = "running" /\ visited # <<>> /\ Last(visited) \in ToolNodes)
          => /\ node = Owner(Last(visited))
             /\ Last(messages).type = "tool"

C18_Witness ==
    /\ status = "running"
    /\ visited = <<"supervisor", "sql_worker", "sql_tools", "sql_worker",
                   "db_chart_worker", "db_chart_tools">>
    /\ node = "db_chart_worker"
    /\ Last(messages).type = "tool"

\* C19: a request to process_query starts a run only with a non-empty file
\* list.  When the uploads directory lists no name ending in .csv or .db (in
\* any letter case) the request is rejected with HTTP 400: no node is visited,
\* no model call is made and no state of the graph exists (no message, no file
\* list, no active worker).
C19_EmptyFileListRejected ==
    caller = "process_query" =>
        IF ~has_csv(upload_dir) /\ ~has_db(upload_dir)
        THEN /\ status = "rejected"
             /\ fatal = "HTTP 400: No data files found in the uploads directory."
             /\ visited = <<>>
             /\ steps = 0
             /\ node = "START"
             /\ llm_calls = 0
             /\ messages = <<>>
             /\ file_paths = <<>>
             /\ active_worker = ""
             /\ answer = ""
        ELSE /\ status # "rejected"
             /\ file_paths # <<>>
             /\ \A f \in Range(file_paths) : f \in Range(upload_dir)

C19_Witness ==
    /\ caller = "process_query"
    /\ status = "rejected"
    /\ upload_dir = <<"n.txt">>
    /\ visited = <<>>

\* the chart files of C20's cases: file x.png, or a file the workers name,
\* under a directory prefix that holds no ".png"
PlainChartFiles ==
    {c \in ChartFiles : ~Contains(c.prefix, ".png") /\ ~Contains(c.name, " ")}

\* the first application returns "charts/<name>" for the marker and for the
\* long form
FirstPassExtracts ==
    ui_pass = 1 =>
        \A l \in Leads, c \in PlainChartFiles :
            /\ ui_text = MarkerForm(l, c) => ui_chart_path = Some("charts/" \o c.name)
            /\ ui_text = LongForm(l, c) => ui_chart_path = Some("charts/" \o c.name)

\* C20: extract_chart_path returns "charts/x.png" for a text that holds the
\* marker "[Chart saved to charts/x.png]", and the same when the marker's path
\* starts with an absolute prefix; it returns "charts/<name>" for the long form
\* "Chart saved to: <absolute path>"; applied to the path it returned, it
\* returns that path again.
C20_ExtractChartPath ==
    /\ FirstPassExtracts
    /\ ui_pass = 2 => ui_chart_path = Some(ui_text)

\* C21: whenever the supervisor selected sql_worker for a file list that
\* get_local_files produced, the workers' lookup of a .db name in that list
\* finds one, and neither sql_worker nor sql_tools fails at the lookup.
C21_DbLookupsAgree ==
    (/\ caller = "process_query"
     /\ visited # <<>>
     /\ supervisor_node([State EXCEPT !.messages = InitialMessages]) = "sql_worker")
        => /\ db_lookup(file_paths) # None
           /\ fatal # "StopIteration"

\* a model call made with no tools declared (a follow-up call) returned a tool
\* call: the workers append the response of a follow-up call right after the
\* result of their own tool, so the history then holds a tool result followed
\* by a call of the tool that produced it
ToolCallWithoutTools ==
    \E i \in 2..(Len(messages) - 1) :
        /\ messages[i].type = "tool"
        /\ messages[i + 1].type = "ai"
        /\ messages[i + 1].tool_calls # <<>>
        /\ messages[i - 1].tool_calls # <<>>
        /\ messages[i + 1].tool_calls[1].name = messages[i - 1].tool_calls[1].name

\* the predicate above becomes true in the step in which a follow-up call
\* gets a tool call, and in no other
FollowUpCallsAreRecorded ==
    [][ToolCallWithoutTools' <=>
          \/ ToolCallWithoutTools
          \/ /\ llm_calls' = llm_calls + 1
             /\ last_llm'.phase = "followup"
             /\ last_llm'.response.tool_calls # <<>>]_vars

Visits(n) == Cardinality({i \in DOMAIN visited : visited[i] = n})

\* C22: as long as no model call made with no tools declared returned a tool
\* call, a run makes at most 7 node visits and then a node is no longer due:
\* the supervisor is visited exactly once, first; each tool node at most once
\* and each worker at most twice (generation and follow-up); the tabular
\* branch excludes the SQL and chart branches; the chart worker comes only
\* after the SQL worker; and the step limit of 100 is never reached.
C22_AtMostSevenVisits ==
    ~ToolCallWithoutTools =>
        /\ steps <= 7
        /\ steps = Len(visited)
        /\ (status = "running" /\ steps = 7) => node = "END"
        /\ visited # <<>> => (visited[1] = "supervisor" /\ Visits("supervisor") = 1)
        /\ \A n \in {"csv_tools", "sql_tools", "db_chart_tools"} : Visits(n) <= 1
        /\ \A n \in Workers : Visits(n) <= 2
        /\ Visits("csv_worker") > 0 => Visits("sql_worker") + Visits("db_chart_worker") = 0
        /\ Visits("db_chart_worker") > 0 => Visits("sql_worker") = 2
        /\ fatal # "GraphRecursionError"
        /\ ~(status = "running" /\ node # "END" /\ steps >= RecursionLimit)

C22_Witness ==
    /\ ~ToolCallWithoutTools
    /\ status = "ok"
    /\ visited = <<"supervisor", "sql_worker", "sql_tools", "sql_worker",
                   "db_chart_worker", "db_chart_tools", "db_chart_worker">>

\* the run was handed off to the chart worker, or the chart worker ran
ReachedChartWorker ==
    \/ active_worker = "db_chart_worker"
    \/ node = "db_chart_worker"
    \/ "db_chart_worker" \in Range(visited)

\* C23: the SQL worker's two phases agree on chart intent.  Once a run is
\* handed off to the chart worker, the statement in last_sql_query is the one
\* the generation call returned and that call's prompt said "Do NOT limit
\* rows."; a run whose statement was generated under the 10-row instruction
\* never reaches the chart worker; and the instruction the generation used
\* is the one the first message yields now (messages[0] has not changed).
C23_PhasesAgreeOnChartIntent ==
    /\ ReachedChartWorker
          => /\ generated_under = Some("Do NOT limit rows.")
             /\ Len(messages) >= 2
             /\ messages[2].tool_calls # <<>>
             /\ last_sql_query = Some(messages[2].tool_calls[1].args.query)
    /\ (generated_under # None /\ generated_under # Some("Do NOT limit rows."))
          => ~ReachedChartWorker
    /\ generated_under # None
          => /\ generated_under = Some(limit_instruction(State))
             /\ messages[1] = InitialMessages[1]

C23_Witness ==
    /\ status = "ok"
    /\ "db_chart_worker" \in Range(visited)
    /\ generated_under = Some("Do NOT limit rows.")
    /\ last_sql_query = Some("SELECT 1")

\* the worker a node belongs to
Branch(n) == IF n \in ToolNodes THEN Owner(n) ELSE n

C25_CodeRunsOnOwnTable ==
    \A t \in Threads :
        invocations[t].ran_on # None => invocations[t].ran_on = invocations[t].df

\* C26: while an invocation's result names a chart file, the file holds the
\* figure that invocation drew: no later or concurrent invocation writes to
\* the same path.
C26_ChartFileKeepsRunsChart ==
    \A t \in Threads :
        (invocations[t].pc = "returned" /\ invocations[t].fig_path # None)
            => /\ invocations[t].fig_path[1] \in DOMAIN charts
               /\ charts[invocations[t].fig_path[1]].by = t

====
